---- MODULE Spec2Model ----
(***************************************************************************)
(* State-machine model of the WebRTC signaling server of src/index.ts      *)
(* (class SignalingServer).  One action per event handler of the server    *)
(* (connection, message, close, error, heartbeat timer) plus the steps of  *)
(* the environment that produce those events (a socket closing or failing, *)
(* the clock advancing).  A handler runs to completion: every action       *)
(* models the whole handler including the sends and broadcasts it makes.   *)
(***************************************************************************)
EXTENDS Integers, Sequences, FiniteSets, TLC

\* ------------------------------------------------------------------ bounds
MaxConns == 2
MaxNames == 1
MaxSweeps == 4
MaxFail == 1

\* ------------------------------------------------------- program constants
HEARTBEAT_INTERVAL == 30000
MAX_IDLE_TIME == 90000

\* ------------------------------------------------------------------ values
Conns == 1..MaxConns
\* result of Map.get on a key that is not there (undefined)
NoClient == 0
\* a field that is absent from a message (undefined, or the empty string:
\* both are falsy for the tests "!message.peerId" and "!message.target")
None == ""

NameTable == <<"alice", "bob", "carol">>
Names == {NameTable[i] : i \in 1..MaxNames}
\* uuidv4(): the n-th connection accepted gets the n-th generated uuid; the
\* generator never repeats a value
UuidTable == <<"u1", "u2", "u3", "u4", "u5">>
uuidv4(c) == UuidTable[c]

RelayTypes == {"offer", "answer", "ice-candidate"}

\* interface SignalMessage: a record with the fields that are present; reading
\* a field that is absent gives undefined
Field(message, f) == IF f \in DOMAIN message THEN message[f] ELSE None
\* the JSON literal null: JSON.parse returns null and "message.type" throws
JSNull == [null |-> TRUE]

\* A frame on the wire is text.  enc is the form of the text: "compact" is what
\* JSON.stringify produces, "spaced" is the same object written with
\* insignificant white space, "garbage" is text that is not JSON.
JSONstringify(message) == [enc |-> "compact", msg |-> message]
JSONparseThrows(raw) == raw.enc = "garbage"
JSONparse(raw) == raw.msg

\* ------------------------------------------------------------------- state
VARIABLES
    clients,    \* this.clients: Map<string, SignalClient>, in insertion order
    id,         \* SignalClient.id of each connection's client record
    lastSeen,   \* SignalClient.lastSeen of each connection's client record
    sock,       \* socket.readyState: "NONE" (not yet accepted), "OPEN", "CLOSED"
    pending,    \* socket events emitted and not yet handled: "error", "close"
    now,        \* Date.now()
    nextSweep,  \* the time the heartbeat timer fires next
    ev,         \* the event handled by the last step and the branch it took
    sent,       \* the socket.send calls of the last step, in order: the socket,
                \* the text, whether the call returned (ok) or threw, and the
                \* number of the broadcast it belongs to (0: sendToClient)
    bcasts      \* the broadcast() calls of the last step, in order: the text,
                \* the connections in the registry at the call, and the number
                \* of socket.send calls made before it

vars == <<clients, id, lastSeen, sock, pending, now, nextSweep, ev, sent, bcasts>>

\* ---------------------------------------------------------- Map<string, _>
MapHas(m, k) == \E i \in 1..Len(m) : m[i].key = k
MapGet(m, k) ==
    IF MapHas(m, k) THEN m[CHOOSE i \in 1..Len(m) : m[i].key = k].client
    ELSE NoClient
RECURSIVE MapDelete(_, _)
MapDelete(m, k) ==
    IF m = <<>> THEN <<>>
    ELSE IF Head(m).key = k THEN MapDelete(Tail(m), k)
    ELSE <<Head(m)>> \o MapDelete(Tail(m), k)
MapSet(m, k, c) ==
    IF MapHas(m, k)
    THEN [i \in 1..Len(m) |-> IF m[i].key = k THEN [key |-> k, client |-> c] ELSE m[i]]
    ELSE Append(m, [key |-> k, client |-> c])
MapKeys(m) == [i \in 1..Len(m) |-> m[i].key]
MapValues(m) == [i \in 1..Len(m) |-> m[i].client]

KeySet(m) == {m[i].key : i \in 1..Len(m)}
ClientSet(m) == {m[i].client : i \in 1..Len(m)}

\* ------------------------------------------- the server state in a handler
\* k counts the socket.send calls made so far by the running handler; the
\* transport makes the calls whose number is in F throw.
Begin ==
    [clients |-> clients, id |-> id, lastSeen |-> lastSeen, sock |-> sock,
     pending |-> pending, sent |-> <<>>, bcasts |-> <<>>, k |-> 0]

\* --------------------------------------------------------------- broadcast
RECURSIVE broadcastLoop(_, _, _, _, _)
broadcastLoop(st, values, i, messageStr, F) ==
    IF i > Len(values) THEN st
    ELSE LET client == values[i]
             n == st.k + 1
         IN  IF st.sock[client] = "OPEN"
             THEN broadcastLoop(
                    [st EXCEPT !.k = n,
                               !.sent = Append(@, [to |-> client, data |-> messageStr,
                                                   ok |-> n \notin F,
                                                   b |-> Len(st.bcasts)])],
                    values, i + 1, messageStr, F)
             ELSE broadcastLoop(st, values, i + 1, messageStr, F)

\* broadcast giving up at the first send that throws
RECURSIVE broadcastLoop_stop(_, _, _, _, _)
broadcastLoop_stop(st, values, i, messageStr, F) ==
    IF i > Len(values) THEN st
    ELSE LET client == values[i]
             n == st.k + 1
         IN  IF st.sock[client] = "OPEN"
             THEN LET st1 == [st EXCEPT !.k = n,
                                        !.sent = Append(@, [to |-> client,
                                                            data |-> messageStr,
                                                            ok |-> n \notin F,
                                                            b |-> Len(st.bcasts)])]
                  IN  IF n \in F THEN st1
                      ELSE broadcastLoop_stop(st1, values, i + 1, messageStr, F)
             ELSE broadcastLoop_stop(st, values, i + 1, messageStr, F)

broadcast_stopOnFailure(st, message, F) ==
    LET messageStr == JSONstringify(message)
        st1 == [st EXCEPT !.bcasts = Append(@, [data |-> messageStr,
                                                 members |-> ClientSet(st.clients),
                                                 at |-> Len(st.sent)])]
    IN  broadcastLoop_stop(st1, MapValues(st.clients), 1, messageStr, F)

broadcast(st, message, F) ==
    LET messageStr == JSONstringify(message)
        st1 == [st EXCEPT !.bcasts = Append(@, [data |-> messageStr,
                                                 members |-> ClientSet(st.clients),
                                                 at |-> Len(st.sent)])]
    IN  broadcastLoop(st1, MapValues(st.clients), 1, messageStr, F)

broadcastPeerList(st, F) ==
    LET peerIds == MapKeys(st.clients)
    IN  broadcast(st, [type |-> "peers", peers |-> peerIds], F)

\* handleDisconnect notifying the other clients before it removes the client
handleDisconnect_broadcastFirst(st, client, F) ==
    LET st1 == broadcastPeerList(st, F)
    IN  [st1 EXCEPT !.clients = MapDelete(@, st.id[client])]

handleDisconnect(st, client, F) ==
    broadcastPeerList([st EXCEPT !.clients = MapDelete(@, st.id[client])], F)

\* sendToClient with a catch that only logs
sendToClient_ignoreFailure(st, client, message, F) ==
    IF st.sock[client] = "OPEN"
    THEN [st EXCEPT !.k = st.k + 1,
                    !.sent = Append(@, [to |-> client, data |-> JSONstringify(message),
                                        ok |-> (st.k + 1) \notin F, b |-> 0])]
    ELSE st

sendToClient(st, client, message, F) ==
    IF st.sock[client] = "OPEN"
    THEN LET n == st.k + 1
             st1 == [st EXCEPT !.k = n,
                               !.sent = Append(@, [to |-> client,
                                                   data |-> JSONstringify(message),
                                                   ok |-> n \notin F, b |-> 0])]
         IN  IF n \in F THEN handleDisconnect(st1, client, F) ELSE st1
    ELSE st

\* sendPeerList answering with a broadcast of the list
sendPeerList_broadcast(st, client, F) == broadcastPeerList(st, F)

sendPeerList(st, client, F) ==
    LET peerIds == MapKeys(st.clients)
    IN  sendToClient(st, client, [type |-> "peers", peers |-> peerIds], F)

\* relayMessage handing the message to every client instead of its target
relayMessage_broadcast(st, message, F) ==
    IF Field(message, "target") = None THEN st
    ELSE IF MapGet(st.clients, message.target) = NoClient THEN st
    ELSE broadcast(st, message, F)

relayMessage(st, message, F) ==
    IF Field(message, "target") = None THEN st
    ELSE LET targetClient == MapGet(st.clients, message.target)
         IN  IF targetClient = NoClient THEN st
             ELSE sendToClient(st, targetClient, message, F)

\* the test "ID is already in use" of handleRegister
idInUse(st, newPeerId, client) ==
    /\ MapHas(st.clients, newPeerId)
    /\ st.id[MapGet(st.clients, newPeerId)] # st.id[client]

\* reassign with the removal of the old entry left out
reassign_keepOld(st, client, newPeerId) ==
    LET st2 == [st EXCEPT !.id[client] = newPeerId]
    IN  [st2 EXCEPT !.clients = MapSet(@, newPeerId, client)]

\* reassign with the update of the client id left out
reassign_noIdUpdate(st, client, newPeerId) ==
    LET st1 == [st EXCEPT !.clients = MapDelete(@, st.id[client])]
    IN  [st1 EXCEPT !.clients = MapSet(@, newPeerId, client)]

\* remove the old entry, update the client id, store under the new id
reassign(st, client, newPeerId) ==
    LET st1 == [st EXCEPT !.clients = MapDelete(@, st.id[client])]
        st2 == [st1 EXCEPT !.id[client] = newPeerId]
    IN  [st2 EXCEPT !.clients = MapSet(@, newPeerId, client)]

\* handleRegister notifying all clients before it confirms to the requester
handleRegister_broadcastFirst(st, message, client, F) ==
    IF Field(message, "peerId") = None THEN st
    ELSE LET newPeerId == message.peerId
         IN  IF idInUse(st, newPeerId, client)
             THEN sendToClient(st, client,
                               [type |-> "error", message |-> "Peer ID already in use"], F)
             ELSE LET st1 == reassign(st, client, newPeerId)
                      st2 == broadcastPeerList(st1, F)
                  IN  sendToClient(st2, client,
                                   [type |-> "registered", peerId |-> newPeerId], F)

\* handleRegister updating the client id before the test for a conflict
handleRegister_assignFirst(st, message, client, F) ==
    IF Field(message, "peerId") = None THEN st
    ELSE LET newPeerId == message.peerId
         IN  IF idInUse(st, newPeerId, client)
             THEN sendToClient([st EXCEPT !.id[client] = newPeerId], client,
                               [type |-> "error", message |-> "Peer ID already in use"], F)
             ELSE LET st1 == reassign(st, client, newPeerId)
                      st2 == sendToClient(st1, client,
                                          [type |-> "registered", peerId |-> newPeerId], F)
                  IN  broadcastPeerList(st2, F)

handleRegister(st, message, client, F) ==
    IF Field(message, "peerId") = None THEN st
    ELSE LET newPeerId == message.peerId
         IN  IF idInUse(st, newPeerId, client)
             THEN sendToClient(st, client,
                               [type |-> "error", message |-> "Peer ID already in use"], F)
             ELSE LET st1 == reassign(st, client, newPeerId)
                      st2 == sendToClient(st1, client,
                                          [type |-> "registered", peerId |-> newPeerId], F)
                  IN  broadcastPeerList(st2, F)

\* handleMessage updating lastSeen only in the cases of the switch
handleMessage_touchKnownTypes(st, messageData, client, t, F) ==
    IF JSONparseThrows(messageData) THEN st
    ELSE LET message == JSONparse(messageData)
             st1 == [st EXCEPT !.lastSeen[client] = t]
         IN  IF message = JSNull THEN st
             ELSE IF message.type = "register" THEN handleRegister(st1, message, client, F)
             ELSE IF message.type \in RelayTypes THEN relayMessage(st1, message, F)
             ELSE IF message.type = "get-peers" THEN sendPeerList(st1, client, F)
             ELSE IF message.type = "heartbeat" THEN st1
             ELSE st

\* handleMessage answering a heartbeat
handleMessage_ackHeartbeat(st, messageData, client, t, F) ==
    IF JSONparseThrows(messageData) THEN st
    ELSE LET message == JSONparse(messageData)
             st1 == [st EXCEPT !.lastSeen[client] = t]
         IN  IF message = JSNull THEN st1
             ELSE IF message.type = "register" THEN handleRegister(st1, message, client, F)
             ELSE IF message.type \in RelayTypes THEN relayMessage(st1, message, F)
             ELSE IF message.type = "get-peers" THEN sendPeerList(st1, client, F)
             ELSE IF message.type = "heartbeat"
                  THEN sendToClient(st1, client, [type |-> "heartbeat"], F)
             ELSE st1

\* t is Date.now() when the frame is handled
handleMessage(st, messageData, client, t, F) ==
    IF JSONparseThrows(messageData) THEN st
    ELSE LET message == JSONparse(messageData)
             st1 == [st EXCEPT !.lastSeen[client] = t]
         IN  IF message = JSNull THEN st1
             ELSE IF message.type = "register" THEN handleRegister(st1, message, client, F)
             ELSE IF message.type \in RelayTypes THEN relayMessage(st1, message, F)
             ELSE IF message.type = "get-peers" THEN sendPeerList(st1, client, F)
             ELSE st1

\* the path handleMessage takes for a frame, as the server's log shows it
Branch(st, messageData, client) ==
    IF JSONparseThrows(messageData) THEN "parse-error"
    ELSE LET message == JSONparse(messageData)
         IN  IF message = JSNull THEN "type-error"
             ELSE IF message.type = "register"
                  THEN IF Field(message, "peerId") = None THEN "register-missing"
                       ELSE IF idInUse(st, message.peerId, client) THEN "register-conflict"
                       ELSE "register-ok"
             ELSE IF message.type \in RelayTypes
                  THEN IF Field(message, "target") = None THEN "relay-notarget"
                       ELSE IF MapGet(st.clients, message.target) = NoClient
                            THEN "relay-unknown"
                       ELSE "relay-send"
             ELSE IF message.type = "get-peers" THEN "get-peers"
             ELSE IF message.type = "heartbeat" THEN "heartbeat"
             ELSE "unknown-type"

\* socket.terminate(): the socket is destroyed and its close event is emitted
\* later (nothing happens to a socket that is already closed)
terminate(st, client) ==
    IF st.sock[client] = "OPEN"
    THEN [st EXCEPT !.sock[client] = "CLOSED", !.pending[client] = Append(@, "close")]
    ELSE st

\* the loop timing a client out when it is idle for MAX_IDLE_TIME or more
RECURSIVE sweepLoop_atThreshold(_, _, _, _)
sweepLoop_atThreshold(st, entries, i, t) ==
    IF i > Len(entries) THEN st
    ELSE LET client == entries[i].client
         IN  IF t - st.lastSeen[client] >= MAX_IDLE_TIME
             THEN sweepLoop_atThreshold([terminate(st, client) EXCEPT
                                            !.clients = MapDelete(@, entries[i].key)],
                                        entries, i + 1, t)
             ELSE sweepLoop_atThreshold(st, entries, i + 1, t)

\* the loop of the heartbeat timer over this.clients.entries(); deleting the
\* entry being visited does not disturb the iteration of a Map
RECURSIVE sweepLoop(_, _, _, _)
sweepLoop(st, entries, i, t) ==
    IF i > Len(entries) THEN st
    ELSE LET client == entries[i].client
         IN  IF t - st.lastSeen[client] > MAX_IDLE_TIME
             THEN sweepLoop([terminate(st, client) EXCEPT
                                !.clients = MapDelete(@, entries[i].key)],
                            entries, i + 1, t)
             ELSE sweepLoop(st, entries, i + 1, t)

\* the timer callback terminating the idle sockets without deleting the entries
RECURSIVE sweepLoop_noDelete(_, _, _, _)
sweepLoop_noDelete(st, entries, i, t) ==
    IF i > Len(entries) THEN st
    ELSE IF t - st.lastSeen[entries[i].client] > MAX_IDLE_TIME
         THEN sweepLoop_noDelete(terminate(st, entries[i].client), entries, i + 1, t)
         ELSE sweepLoop_noDelete(st, entries, i + 1, t)

heartbeatCheck_noDelete(st, t, F) ==
    broadcastPeerList(sweepLoop_noDelete(st, st.clients, 1, t), F)

\* the timer callback broadcasting only if the sweep removed a client
heartbeatCheck_onlyIfRemoved(st, t, F) ==
    LET st1 == sweepLoop(st, st.clients, 1, t)
    IN  IF st1.clients = st.clients THEN st1 ELSE broadcastPeerList(st1, F)

heartbeatCheck(st, t, F) ==
    broadcastPeerList(sweepLoop(st, st.clients, 1, t), F)

\* ------------------------------------------------------------------ inputs
\* the ids a frame can name as a relay target: the names, and the uuids
\* handed out so far
KnownIds == Names \cup {uuidv4(c) : c \in {x \in Conns : sock[x] # "NONE"}}

\* the frames connection c may send: a register for a name, for its own
\* provisional id or without peerId; relays of each type, to each known id or
\* without target, in compact and in spaced text; the other types; text that
\* is the JSON literal null; text that is not JSON
RegisterMessages(c) ==
    {[type |-> "register", peerId |-> p] : p \in Names \cup {uuidv4(c)}}
    \cup {[type |-> "register"]}
RelayMessages(c, t, targets) ==
    {[type |-> t, source |-> id[c], target |-> x, payload |-> "sdp"] : x \in targets}
    \cup {[type |-> t, source |-> id[c], payload |-> "sdp"]}
InFrames(c) ==
    {[enc |-> "compact", msg |-> m] :
        m \in RegisterMessages(c)
              \cup {[type |-> "get-peers"], [type |-> "heartbeat"], [type |-> "bogus"], JSNull}}
    \cup {[enc |-> "compact", msg |-> m] : m \in RelayMessages(c, "offer", KnownIds)}
    \cup {[enc |-> "spaced", msg |-> m] : m \in RelayMessages(c, "answer", KnownIds)}
    \cup {[enc |-> "compact", msg |-> m] : m \in RelayMessages(c, "ice-candidate", KnownIds)}
    \cup {[enc |-> "garbage"]}

\* the sets of socket.send calls the transport may fail in a handler that
\* makes k calls when none fails: at most MaxFail of them, among the k calls and
\* the calls of the broadcasts that a failure adds
FailSets(k) ==
    IF k = 0 THEN {{}}
    ELSE {F \in SUBSET (1..(k + MaxFail * Len(clients))) : Cardinality(F) <= MaxFail}

\* what the server's log shows of a step on connection c: the event and the
\* id the client record had when the event arrived
Event(type, c) == [type |-> type, conn |-> c, oldId |-> id[c]]

Commit(st) ==
    /\ clients' = st.clients
    /\ id' = st.id
    /\ lastSeen' = st.lastSeen
    /\ sock' = st.sock
    /\ pending' = st.pending
    /\ sent' = st.sent
    /\ bcasts' = st.bcasts

\* -------------------------------------------------------------------- Init
Init ==
    /\ clients = <<>>
    /\ id = [c \in Conns |-> None]
    /\ lastSeen = [c \in Conns |-> 0]
    /\ sock = [c \in Conns |-> "NONE"]
    /\ pending = [c \in Conns |-> <<>>]
    /\ now = 0
    /\ nextSweep = HEARTBEAT_INTERVAL
    /\ ev = [type |-> "init"]
    /\ sent = <<>>
    /\ bcasts = <<>>

\* ----------------------------------------------------------------- actions
\* the connection handler sending the welcome before it stores the client
OnConnection_sendFirst(c, F) ==
    /\ sock[c] = "NONE"
    /\ \A x \in Conns : x < c => sock[x] # "NONE"
    /\ LET tempId == uuidv4(c)
           st1 == [Begin EXCEPT !.id[c] = tempId, !.lastSeen[c] = now, !.sock[c] = "OPEN"]
           st2 == sendToClient(st1, c, [type |-> "welcome", peerId |-> tempId], F)
       IN  Commit([st2 EXCEPT !.clients = MapSet(@, tempId, c)])
    /\ ev' = [type |-> "connection", conn |-> c]
    /\ UNCHANGED <<now, nextSweep>>

\* wss.on('connection'): connections are accepted in the order 1, 2, ...
OnConnection(c, F) ==
    /\ sock[c] = "NONE"
    /\ \A x \in Conns : x < c => sock[x] # "NONE"
    /\ LET tempId == uuidv4(c)
           st1 == [Begin EXCEPT !.id[c] = tempId, !.lastSeen[c] = now, !.sock[c] = "OPEN"]
           st2 == [st1 EXCEPT !.clients = MapSet(@, tempId, c)]
       IN  Commit(sendToClient(st2, c, [type |-> "welcome", peerId |-> tempId], F))
    /\ ev' = [type |-> "connection", conn |-> c]
    /\ UNCHANGED <<now, nextSweep>>

\* socket.on('message'): a frame arrives on an open socket
OnMessage(c, messageData, F) ==
    /\ sock[c] = "OPEN"
    /\ Commit(handleMessage(Begin, messageData, c, now, F))
    /\ ev' = [type |-> "message", conn |-> c, oldId |-> id[c], frame |-> messageData,
              branch |-> Branch(Begin, messageData, c)]
    /\ UNCHANGED <<now, nextSweep>>

\* the close handler only logging the disconnection
OnClose_logOnly(c, F) ==
    /\ pending[c] # <<>>
    /\ Head(pending[c]) = "close"
    /\ Commit([Begin EXCEPT !.pending[c] = Tail(@)])
    /\ ev' = Event("close", c)
    /\ UNCHANGED <<now, nextSweep>>

\* socket.on('close')
OnClose(c, F) ==
    /\ pending[c] # <<>>
    /\ Head(pending[c]) = "close"
    /\ Commit(handleDisconnect([Begin EXCEPT !.pending[c] = Tail(@)], c, F))
    /\ ev' = Event("close", c)
    /\ UNCHANGED <<now, nextSweep>>

\* socket.on('error')
OnError(c, F) ==
    /\ pending[c] # <<>>
    /\ Head(pending[c]) = "error"
    /\ Commit(handleDisconnect([Begin EXCEPT !.pending[c] = Tail(@)], c, F))
    /\ ev' = Event("error", c)
    /\ UNCHANGED <<now, nextSweep>>

\* the setInterval callback of startHeartbeatCheck
Sweep(F) ==
    /\ now = nextSweep
    /\ Commit(heartbeatCheck(Begin, now, F))
    /\ nextSweep' = now + HEARTBEAT_INTERVAL
    /\ ev' = [type |-> "sweep",
              evicted |-> ClientSet(clients)
                          \ ClientSet(sweepLoop(Begin, clients, 1, now).clients)]
    /\ UNCHANGED now

\* environment: the peer closes the connection; the close event is emitted
SocketClosed(c) ==
    /\ sock[c] = "OPEN"
    /\ sock' = [sock EXCEPT ![c] = "CLOSED"]
    /\ pending' = [pending EXCEPT ![c] = Append(@, "close")]
    /\ ev' = [type |-> "socket-closed", conn |-> c]
    /\ sent' = <<>>
    /\ bcasts' = <<>>
    /\ UNCHANGED <<clients, id, lastSeen, now, nextSweep>>

\* environment: the transport fails; ws emits error and then close
SocketErrored(c) ==
    /\ sock[c] = "OPEN"
    /\ sock' = [sock EXCEPT ![c] = "CLOSED"]
    /\ pending' = [pending EXCEPT ![c] = @ \o <<"error", "close">>]
    /\ ev' = [type |-> "socket-errored", conn |-> c]
    /\ sent' = <<>>
    /\ bcasts' = <<>>
    /\ UNCHANGED <<clients, id, lastSeen, now, nextSweep>>

\* environment: the clock advances to the instant the timer is due; the timer
\* fires on time
Tick ==
    /\ now < MaxSweeps * HEARTBEAT_INTERVAL
    /\ now < nextSweep
    /\ now' = nextSweep
    /\ ev' = [type |-> "tick"]
    /\ sent' = <<>>
    /\ bcasts' = <<>>
    /\ UNCHANGED <<clients, id, lastSeen, sock, pending, nextSweep>>

Next ==
    \/ \E c \in Conns : \E F \in FailSets(1) : OnConnection(c, F)
    \/ \E c \in Conns : \E messageData \in InFrames(c) :
           \E F \in FailSets(handleMessage(Begin, messageData, c, now, {}).k) :
               OnMessage(c, messageData, F)
    \/ \E c \in Conns : \E F \in FailSets(handleDisconnect(Begin, c, {}).k) : OnClose(c, F)
    \/ \E c \in Conns : \E F \in FailSets(handleDisconnect(Begin, c, {}).k) : OnError(c, F)
    \/ \E F \in FailSets(heartbeatCheck(Begin, now, {}).k) : Sweep(F)
    \/ \E c \in Conns : SocketClosed(c)
    \/ \E c \in Conns : SocketErrored(c)
    \/ Tick

Spec == Init /\ [][Next]_vars

\* The event loop delivers every event a socket has emitted: a close or error
\* handler that is due (the head of a socket's pending events) is eventually
\* run.  Deliver is the step of such a handler.
Deliver ==
    \E c \in Conns :
        \E F \in FailSets(handleDisconnect(Begin, c, {}).k) : OnClose(c, F) \/ OnError(c, F)

\* Deliver is enabled exactly when some socket has an event pending, and it is
\* the one step that takes an event off a socket's pending events:
\* DeliverEnabled is an invariant of Spec and DeliverPops an action property.
AllDelivered == \A c \in Conns : pending[c] = <<>>
Pop == \E c \in Conns : pending[c] # <<>> /\ pending' = [pending EXCEPT ![c] = Tail(@)]
DeliverEnabled == (ENABLED <<Deliver>>_vars) <=> ~AllDelivered
DeliverPops == [][Deliver <=> Pop]_vars

\* Weak fairness of Deliver, WF_vars(Deliver), which is by definition
\* []<>~(ENABLED <<Deliver>>_vars) \/ []<><<Deliver>>_vars, written with the
\* two equivalents above
Delivery == []<>AllDelivered \/ []<><<Pop>>_vars

LiveSpec == Spec /\ Delivery

\* ================================================================== claims
\* -------------------------------------------------- reading the step's log
IsMessage(e) == e.type = "message"
IsRegisterOk(e) == IsMessage(e) /\ e.branch = "register-ok"
PeerIdOf(e) == e.frame.msg.peerId
TargetOf(e) == e.frame.msg.target
RegisteredText(p) == JSONstringify([type |-> "registered", peerId |-> p])
ErrorText == JSONstringify([type |-> "error", message |-> "Peer ID already in use"])
SeqToSet(q) == {q[i] : i \in 1..Len(q)}
\* the keys under which connection c is bound in registry m
KeysOf(m, c) == {m[i].key : i \in {j \in 1..Len(m) : m[j].client = c}}

\* C1 (uniqueness of ids): a register{peerId} request of connection C succeeds
\* only if the registry does not bind peerId to a connection other than C, and
\* so no step re-binds a key of the registry to a different connection.
C1_RegisterOnlyIfFree ==
    [][ /\ IsRegisterOk(ev') => MapGet(clients, PeerIdOf(ev')) \in {NoClient, ev'.conn}
        /\ \A k \in KeySet(clients) \cap KeySet(clients') :
               MapGet(clients', k) = MapGet(clients, k) ]_vars

\* C2 (atomic reassignment), as claimed: after a successful register by C from
\* oldId to newId # oldId, the registry has no entry under oldId, binds newId
\* to C, and C's record id is newId.
C2_AsClaimed ==
    (IsRegisterOk(ev) /\ ev.oldId # PeerIdOf(ev)) =>
        /\ ~MapHas(clients, ev.oldId)
        /\ MapGet(clients, PeerIdOf(ev)) = ev.conn
        /\ id[ev.conn] = PeerIdOf(ev)

\* C2 as amended: after a successful register by C from oldId to newId # oldId
\* the registry has no entry under oldId, C's record id is newId, and C is
\* bound under newId and under no other key if the send of registered to C did
\* not fail; if that send failed C is bound under no key at all.  In no state
\* is a connection bound under two keys.
C2_AtomicReassign ==
    /\ \A c \in Conns : Cardinality(KeysOf(clients, c)) <= 1
    /\ (IsRegisterOk(ev) /\ ev.oldId # PeerIdOf(ev)) =>
        /\ ~MapHas(clients, ev.oldId)
        /\ id[ev.conn] = PeerIdOf(ev)
        /\ sent # <<>>
        /\ IF sent[1].ok
           THEN KeysOf(clients, ev.conn) = {PeerIdOf(ev)}
           ELSE KeysOf(clients, ev.conn) = {}

\* C2 witness: a register from one id to another succeeded and its
\* confirmation was delivered, while another connection is in the registry
C2_Witness ==
    /\ IsRegisterOk(ev) /\ ev.oldId # PeerIdOf(ev)
    /\ sent # <<>> /\ sent[1].ok
    /\ Len(clients) = 2

\* a frame that decodes to a message of the given types
IsFrameOf(e, types) ==
    /\ IsMessage(e)
    /\ ~JSONparseThrows(e.frame)
    /\ JSONparse(e.frame) # JSNull
    /\ Field(JSONparse(e.frame), "type") \in types
IsRelay(e) == IsFrameOf(e, RelayTypes)
\* send number i of the step carried message m, whatever the text's form
Carries(log, i, m) == JSONparse(log[i].data) = m

\* C3 (relay correctness), as claimed: a relay frame with target T is
\* delivered unmodified to the connection bound to T if and only if T is a
\* key of the registry at dispatch; when T is absent or the target is missing
\* nothing is sent to anyone; nothing is ever sent back to the sender.
C3_AsClaimed ==
    [][ IsRelay(ev') =>
          LET m == JSONparse(ev'.frame)
              T == Field(m, "target")
              tc == MapGet(clients, T)
          IN  /\ (T # None /\ MapHas(clients, T))
                     <=> (\E i \in DOMAIN sent' :
                             sent'[i].to = tc /\ sent'[i].ok /\ Carries(sent', i, m))
              /\ (T = None \/ ~MapHas(clients, T)) => sent' = <<>>
              /\ \A i \in DOMAIN sent' : sent'[i].to # ev'.conn ]_vars

\* C3 as amended: for a relay frame with target T, exactly when T is a key of
\* the registry at dispatch and the socket of the connection bound to T is
\* open, the first send of the step hands the message, content unchanged, to
\* that connection, and no other send of the step carries it; if that send
\* succeeds nothing else is sent and the registry is unchanged; if it fails
\* the target is removed from the registry and one peers broadcast follows.
\* When the target is missing, T is no key or the target's socket is not open,
\* nothing is sent and nothing changes.  The sender is sent the message only
\* when it is itself bound to T, and otherwise only that peers broadcast.
C3_RelayToTarget ==
    [][ IsRelay(ev') =>
          LET m == JSONparse(ev'.frame)
              T == Field(m, "target")
              tc == MapGet(clients, T)
              hit == T # None /\ tc # NoClient /\ sock[tc] = "OPEN"
          IN  IF hit
              THEN /\ sent' # <<>>
                   /\ sent'[1].to = tc /\ sent'[1].b = 0 /\ Carries(sent', 1, m)
                   /\ \A i \in DOMAIN sent' : i > 1 =>
                          /\ sent'[i].b = 1
                          /\ JSONparse(sent'[i].data).type = "peers"
                   /\ IF sent'[1].ok
                      THEN Len(sent') = 1 /\ bcasts' = <<>> /\ clients' = clients
                      ELSE /\ tc \notin ClientSet(clients')
                           /\ Len(bcasts') = 1
                           /\ ClientSet(clients') = ClientSet(clients) \ {tc}
              ELSE sent' = <<>> /\ bcasts' = <<>> /\ clients' = clients ]_vars

\* C3 witness: a spaced relay frame was delivered to another connection
C3_Witness ==
    /\ IsRelay(ev) /\ ev.frame.enc = "spaced"
    /\ Len(sent) = 1 /\ sent[1].ok /\ sent[1].to # ev.conn
    /\ Carries(sent, 1, JSONparse(ev.frame))

\* C4 (registration conflict), as claimed, the failure of a send set aside:
\* when C sends register{peerId} and peerId is bound in the registry to a
\* different connection, C is sent the error, C is not sent registered, no
\* peers broadcast is made and the registry and the record ids are as before.
C4_AsClaimed ==
    [][ (IsFrameOf(ev', {"register"}) /\ Field(JSONparse(ev'.frame), "peerId") # None
         /\ MapGet(clients, PeerIdOf(ev')) \notin {NoClient, ev'.conn}) =>
          /\ \E i \in DOMAIN sent' : sent'[i].to = ev'.conn /\ sent'[i].data = ErrorText
          /\ \A i \in DOMAIN sent' :
                 ~(sent'[i].to = ev'.conn /\ sent'[i].data = RegisteredText(PeerIdOf(ev')))
          /\ (\A i \in DOMAIN sent' : sent'[i].ok) =>
                 (bcasts' = <<>> /\ clients' = clients /\ id' = id) ]_vars

IsGetPeers(e) == IsFrameOf(e, {"get-peers"})

\* C5 (snapshot consistency), as claimed: the reply to get-peers is a single
\* peers message, sent only to the requester, listing exactly the registry keys
\* at that moment, the requester's own id included; no broadcast is made and
\* the registry does not change.
C5_AsClaimed ==
    [][ IsGetPeers(ev') =>
          /\ Len(sent') = 1
          /\ sent'[1].to = ev'.conn
          /\ JSONparse(sent'[1].data).type = "peers"
          /\ SeqToSet(JSONparse(sent'[1].data).peers) = KeySet(clients)
          /\ id[ev'.conn] \in SeqToSet(JSONparse(sent'[1].data).peers)
          /\ bcasts' = <<>>
          /\ clients' = clients ]_vars

\* C5 as amended: the first send of a get-peers step is a peers message to the
\* requester listing exactly the registry keys at that moment, each once (the
\* requester's own id among them if the requester is in the registry); if that
\* send succeeds it is the only send, no broadcast is made and the registry
\* does not change; if it fails the requester is removed from the registry and
\* one peers broadcast follows.
C5_Snapshot ==
    [][ IsGetPeers(ev') =>
          LET C == ev'.conn
          IN  /\ sent' # <<>>
              /\ sent'[1].to = C /\ sent'[1].b = 0
              /\ JSONparse(sent'[1].data).type = "peers"
              /\ SeqToSet(JSONparse(sent'[1].data).peers) = KeySet(clients)
              /\ Len(JSONparse(sent'[1].data).peers) = Cardinality(KeySet(clients))
              /\ C \in ClientSet(clients) => id[C] \in SeqToSet(JSONparse(sent'[1].data).peers)
              /\ \A i \in DOMAIN sent' : i > 1 => sent'[i].b = 1
              /\ IF sent'[1].ok
                 THEN Len(sent') = 1 /\ bcasts' = <<>> /\ clients' = clients
                 ELSE /\ C \notin ClientSet(clients')
                      /\ Len(bcasts') = 1 ]_vars

\* C5 witness: a get-peers was answered with a list of two ids, one of them a
\* registered name
C5_Witness ==
    /\ IsGetPeers(ev)
    /\ Len(sent) = 1 /\ sent[1].ok /\ sent[1].to = ev.conn
    /\ Len(JSONparse(sent[1].data).peers) = 2
    /\ \E n \in Names : n \in SeqToSet(JSONparse(sent[1].data).peers)

IsSweep(e) == e.type = "sweep"
\* the id list of broadcast number n of the step
PeersOf(log, n) == SeqToSet(JSONparse(log[n].data).peers)

\* C6 (eviction): a registry entry whose client was last seen more than
\* MAX_IDLE_TIME before a sweep is, at the end of that sweep, removed from the
\* registry, its socket is no longer open, and its id is absent from the peers
\* broadcast that ends the sweep; and, the timer firing every
\* HEARTBEAT_INTERVAL, once the sweep of an instant has run no entry of the
\* registry is idle for more than MAX_IDLE_TIME.
C6_Eviction ==
    /\ [](now < nextSweep =>
             \A i \in 1..Len(clients) : now - lastSeen[clients[i].client] <= MAX_IDLE_TIME)
    /\ [][ IsSweep(ev') =>
             \A i \in 1..Len(clients) :
                 now - lastSeen[clients[i].client] > MAX_IDLE_TIME =>
                     /\ ~MapHas(clients', clients[i].key)
                     /\ clients[i].client \notin ClientSet(clients')
                     /\ sock'[clients[i].client] = "CLOSED"
                     /\ pending'[clients[i].client] # <<>>
                     /\ bcasts' # <<>>
                     /\ clients[i].key \notin PeersOf(bcasts', Len(bcasts')) ]_vars

\* C6 witness: a sweep timed out a client under a registered name while
\* another client stayed
C6_Witness ==
    /\ IsSweep(ev)
    /\ \E c \in ev.evicted : id[c] \in Names /\ sock[c] = "CLOSED"
    /\ clients # <<>>

\* C7 (broadcast isolation): in every broadcast of a step, whatever sends of
\* it failed, each connection that was in the registry at the broadcast and
\* whose socket is open is sent the broadcast's message exactly once.
C7_BroadcastIsolation ==
    \A n \in 1..Len(bcasts) : \A c \in bcasts[n].members :
        sock[c] = "OPEN" =>
            Cardinality({i \in DOMAIN sent :
                            sent[i].b = n /\ sent[i].to = c
                            /\ sent[i].data = bcasts[n].data}) = 1

\* C7 witness: a send of a broadcast failed and a later recipient of the same
\* broadcast was still sent the message
C7_Witness ==
    \E i, j \in DOMAIN sent :
        /\ i < j /\ sent[i].b > 0 /\ sent[j].b = sent[i].b
        /\ ~sent[i].ok /\ sent[j].ok /\ sent[j].to # sent[i].to

\* C8 (order of the notifications), as claimed: when register{peerId}
\* succeeds for C, C is first sent registered{peerId}, and afterwards a peers
\* message listing the registry ids after the registration (the new id, not
\* the old one) is sent to every connection in the registry, C included.
C8_AsClaimed ==
    IsRegisterOk(ev) =>
        /\ sent # <<>>
        /\ sent[1].to = ev.conn /\ sent[1].data = RegisteredText(PeerIdOf(ev))
        /\ \E n \in 1..Len(bcasts) :
               /\ PeersOf(bcasts, n) = KeySet(clients)
               /\ PeerIdOf(ev) \in PeersOf(bcasts, n)
               /\ ev.oldId # PeerIdOf(ev) => ev.oldId \notin PeersOf(bcasts, n)
               /\ \A c \in ClientSet(clients) \cup {ev.conn} :
                      \E i \in DOMAIN sent : i > 1 /\ sent[i].to = c /\ sent[i].b = n

\* C8 as amended: when register{peerId} succeeds for C, the first send of the
\* step is registered{peerId} to C.  If that send does not fail, exactly one
\* peers broadcast follows it, listing the registry ids after the registration
\* (the new id, not the old one), and it is sent once to every connection in
\* the registry whose socket is open, C included, and nothing else is sent.
\* If that send fails, C is removed and the two peers broadcasts that follow
\* list the registry without the new id and do not go to C.
C8_RegisteredThenPeers ==
    IsRegisterOk(ev) =>
        LET C == ev.conn
            p == PeerIdOf(ev)
        IN  /\ sent # <<>>
            /\ sent[1].to = C /\ sent[1].b = 0 /\ sent[1].data = RegisteredText(p)
            /\ \A i \in DOMAIN sent : i > 1 => sent[i].b > 0
            /\ IF sent[1].ok
               THEN /\ Len(bcasts) = 1 /\ bcasts[1].at = 1
                    /\ JSONparse(bcasts[1].data).peers = MapKeys(clients)
                    /\ p \in PeersOf(bcasts, 1)
                    /\ ev.oldId # p => ev.oldId \notin PeersOf(bcasts, 1)
                    /\ bcasts[1].members = ClientSet(clients)
                    /\ C \in bcasts[1].members
                    /\ \A c \in bcasts[1].members :
                           Cardinality({i \in DOMAIN sent : sent[i].to = c /\ sent[i].b = 1})
                               = IF sock[c] = "OPEN" THEN 1 ELSE 0
               ELSE /\ Len(bcasts) = 2
                    /\ C \notin ClientSet(clients)
                    /\ \A n \in 1..2 : p \notin PeersOf(bcasts, n) /\ C \notin bcasts[n].members
                    /\ \A i \in DOMAIN sent : i > 1 => sent[i].to # C

\* C8 witness: a registration under a new id was confirmed and then announced
\* to the requester and to another client
C8_Witness ==
    /\ IsRegisterOk(ev) /\ ev.oldId # PeerIdOf(ev)
    /\ Len(sent) = 3 /\ sent[1].ok
    /\ \E i \in 2..3 : sent[i].to = ev.conn
    /\ \E i \in 2..3 : sent[i].to # ev.conn

\* C9 (transport failure), as claimed: whenever a send to a client fails, in
\* a direct send or as one recipient of a broadcast, that client's entry is
\* removed from the registry and a directory broadcast follows.
C9_AsClaimed ==
    \A i \in DOMAIN sent :
        ~sent[i].ok =>
            /\ sent[i].to \notin ClientSet(clients)
            /\ \E n \in 1..Len(bcasts) : bcasts[n].at >= i

\* the broadcasts a step makes when no send fails
OwnBroadcasts(e) ==
    IF IsRegisterOk(e) \/ e.type \in {"close", "error", "sweep"} THEN 1 ELSE 0
FailedDirect == {i \in DOMAIN sent : sent[i].b = 0 /\ ~sent[i].ok}

\* C9 as amended: whenever a direct send to a client (welcome, registered,
\* error, peers reply, relay) fails, that client is removed from the registry
\* and a peers broadcast listing the registry without its id follows at once;
\* the failure is not propagated: the handler goes on and makes the broadcasts
\* it makes anyway.  A send that fails as one recipient of a broadcast is only
\* logged: the recipient stays in the registry and no broadcast follows.
C9_TransportFailure ==
    /\ \A i \in FailedDirect :
           /\ sent[i].to \notin ClientSet(clients)
           /\ ~MapHas(clients, id[sent[i].to])
           /\ \E n \in 1..Len(bcasts) :
                  /\ bcasts[n].at = i
                  /\ sent[i].to \notin bcasts[n].members
                  /\ id[sent[i].to] \notin PeersOf(bcasts, n)
    /\ \A i \in DOMAIN sent :
           (sent[i].b > 0 /\ ~sent[i].ok) => sent[i].to \in ClientSet(clients)
    /\ Len(bcasts) = OwnBroadcasts(ev) + Cardinality(FailedDirect)

\* C9 witness: the confirmation of a registration failed, the requester was
\* removed, and the two broadcasts reached another client
C9_Witness ==
    /\ IsRegisterOk(ev)
    /\ FailedDirect = {1}
    /\ Len(bcasts) = 2 /\ Len(sent) = 3

\* C10 (lastSeen), as claimed: every inbound frame, a frame that fails to
\* decode included, sets the client's lastSeen to the current time.
C10_AsClaimed ==
    IsMessage(ev) => lastSeen[ev.conn] = now

\* C10 as amended: every inbound frame that decodes (JSON.parse returns), of
\* any type, sets the client's lastSeen to the current time and changes no
\* other client's; a frame that fails to decode leaves every lastSeen as it
\* was.  A sweep does not time out a client whose lastSeen is at most
\* MAX_IDLE_TIME old, so a client that sends a decodable frame at least once
\* per MAX_IDLE_TIME is never idle for the sweep.
C10_LastSeen ==
    [][ /\ IsMessage(ev') =>
               lastSeen' = IF JSONparseThrows(ev'.frame) THEN lastSeen
                           ELSE [lastSeen EXCEPT ![ev'.conn] = now]
        /\ IsSweep(ev') =>
               \A c \in ev'.evicted : now - lastSeen[c] > MAX_IDLE_TIME ]_vars

\* C10 witness: a frame of an unknown type, arriving after the clock has
\* advanced, refreshed lastSeen
C10_Witness ==
    /\ IsMessage(ev) /\ ev.branch = "unknown-type"
    /\ now > 0 /\ lastSeen[ev.conn] = now

\* C11 (disconnect cleanup): a close event and an error event on connection C
\* are handled alike: the entry under C's id is removed, C is then in the
\* registry under no key, and one peers broadcast is made whose id list is the
\* registry after the removal, so it does not list C's id; the same holds of
\* the client of a direct send that failed and of the clients a sweep evicted.
C11_DisconnectCleanup ==
    [][ /\ ev'.type \in {"close", "error"} =>
             LET C == ev'.conn
             IN  /\ clients' = MapDelete(clients, id[C])
                 /\ C \notin ClientSet(clients')
                 /\ Len(bcasts') = 1 /\ bcasts'[1].at = 0
                 /\ JSONparse(bcasts'[1].data) = [type |-> "peers", peers |-> MapKeys(clients')]
                 /\ id[C] \notin PeersOf(bcasts', 1)
        /\ \A i \in DOMAIN sent' :
              (sent'[i].b = 0 /\ ~sent'[i].ok) =>
                  /\ sent'[i].to \notin ClientSet(clients')
                  /\ \E n \in 1..Len(bcasts') :
                         /\ bcasts'[n].at = i
                         /\ JSONparse(bcasts'[n].data).peers = MapKeys(clients')
                         /\ id'[sent'[i].to] \notin PeersOf(bcasts', n)
        /\ IsSweep(ev') =>
              /\ ev'.evicted \cap ClientSet(clients') = {}
              /\ bcasts' # <<>>
              /\ JSONparse(bcasts'[Len(bcasts')].data).peers = MapKeys(clients')
              /\ \A c \in ev'.evicted : id[c] \notin PeersOf(bcasts', Len(bcasts')) ]_vars

\* C11 witness: an error event was handled, the close event of the same socket
\* is still to come, and the broadcast reached the client that stays
C11_Witness ==
    /\ ev.type = "error"
    /\ pending[ev.conn] = <<"close">>
    /\ Len(clients) = 1 /\ ev.oldId \notin KeySet(clients)
    /\ Len(sent) = 1 /\ sent[1].ok /\ sent[1].b = 1

IsConnection(e) == e.type = "connection"
WelcomeText(p) == JSONstringify([type |-> "welcome", peerId |-> p])

\* C12 (connection accept): a new connection C gets a provisional id that is
\* no key of the registry at that moment; its record has that id and
\* lastSeen = now; the record is in the registry before anything is sent (a
\* welcome that fails removes it again and the broadcast that follows lists
\* the registry without it); the first send is welcome{peerId} to C with that
\* id; and every entry that was in the registry is still there, unchanged.
C12_ConnectionAccept ==
    [][ IsConnection(ev') =>
          LET C == ev'.conn
              p == id'[C]
          IN  /\ ~MapHas(clients, p)
              /\ p = uuidv4(C)
              /\ lastSeen'[C] = now
              /\ sent' # <<>>
              /\ sent'[1].to = C /\ sent'[1].b = 0 /\ sent'[1].data = WelcomeText(p)
              /\ \A i \in 1..Len(clients) : i <= Len(clients') /\ clients'[i] = clients[i]
              /\ \A D \in Conns \ {C} : id'[D] = id[D] /\ lastSeen'[D] = lastSeen[D]
              /\ IF sent'[1].ok
                 THEN /\ clients' = Append(clients, [key |-> p, client |-> C])
                      /\ Len(sent') = 1 /\ bcasts' = <<>>
                 ELSE /\ clients' = clients
                      /\ Len(bcasts') = 1
                      /\ JSONparse(bcasts'[1].data).peers = MapKeys(clients) ]_vars

\* C12 witness: a second connection was accepted and welcomed while the first
\* is in the registry under a registered name
C12_Witness ==
    /\ IsConnection(ev) /\ ev.conn = 2
    /\ Len(clients) = 2 /\ clients[1].key \in Names
    /\ Len(sent) = 1 /\ sent[1].ok

\* C13 (disconnected is terminal): once the record of an accepted connection
\* C is out of the registry, no later step puts a record for C in the registry.
C13_DisconnectedIsTerminal ==
    [][ \A C \in Conns :
          (sock[C] # "NONE" /\ C \notin ClientSet(clients)) =>
              C \notin ClientSet(clients') ]_vars

\* C14 (id mutable once), as claimed: once a client record's id is no longer
\* the provisional id, it never changes again.
C14_AsClaimed ==
    [][ \A C \in Conns :
          (sock[C] # "NONE" /\ id[C] # uuidv4(C)) => id'[C] = id[C] ]_vars

\* C14 as amended: a client record's id is set to the provisional id when the
\* connection is accepted and afterwards changes only by a successful register
\* of its own connection, which sets it to the requested peerId; it changes
\* that way any number of times, a registered id included.
C14_IdChangesByRegister ==
    [][ \A C \in Conns :
          id'[C] # id[C] =>
              \/ IsConnection(ev') /\ ev'.conn = C /\ id'[C] = uuidv4(C)
              \/ IsRegisterOk(ev') /\ ev'.conn = C /\ id'[C] = PeerIdOf(ev') ]_vars

\* C14 witness: a client whose id was a registered name registered again and
\* its id changed a second time
C14_Witness ==
    /\ IsRegisterOk(ev)
    /\ ev.oldId \in Names
    /\ id[ev.conn] # ev.oldId /\ id[ev.conn] = PeerIdOf(ev)

\* C15 (closed connections leave the registry): under delivery of the socket
\* events, a connection whose socket has closed is eventually absent from the
\* registry; it is absent as soon as the events of its socket have all been
\* handled; and once a closed connection is absent no step puts it back.
C15_ClosedEventuallyAbsent ==
    /\ \A C \in Conns : (sock[C] = "CLOSED") ~> (C \notin ClientSet(clients))
    /\ [](\A C \in Conns :
             (sock[C] = "CLOSED" /\ pending[C] = <<>>) => C \notin ClientSet(clients))
    /\ [][ \A C \in Conns :
             (sock[C] = "CLOSED" /\ C \notin ClientSet(clients)) =>
                 C \notin ClientSet(clients') ]_vars

\* C15 witness: the close event of a socket the peer closed was handled; the
\* connection had a registered name and is gone, another client stays
C15_Witness ==
    /\ ev.type = "close"
    /\ sock[ev.conn] = "CLOSED" /\ pending[ev.conn] = <<>>
    /\ ev.oldId \in Names
    /\ ev.conn \notin ClientSet(clients)
    /\ Len(clients) = 1 /\ Len(sent) = 1

\* the number of sends of broadcast n of the step that went to connection c
SendsTo(log, n, c) == Cardinality({i \in DOMAIN log : log[i].b = n /\ log[i].to = c})

NoOpBranches == {"heartbeat", "unknown-type", "register-missing", "parse-error"}

\* C17 (no-op frames): a heartbeat frame, a frame of unrecognized type, a
\* register frame without peerId and a frame that fails to decode each leave
\* the registry and every client's record id unchanged, send nothing and make
\* no broadcast, and leave the sender's socket open, no event pending on it,
\* and the sender in the registry as it was.
C17_NoOpFrames ==
    [][ (IsMessage(ev') /\ ev'.branch \in NoOpBranches) =>
          /\ clients' = clients
          /\ id' = id
          /\ sent' = <<>> /\ bcasts' = <<>>
          /\ sock' = sock /\ sock'[ev'.conn] = "OPEN"
          /\ pending' = pending ]_vars

\* C17 witness: a heartbeat arrived from a client registered under a name,
\* after the clock advanced; it refreshed lastSeen and nothing was sent
C17_Witness ==
    /\ IsMessage(ev) /\ ev.branch = "heartbeat"
    /\ MapGet(clients, id[ev.conn]) = ev.conn /\ id[ev.conn] \in Names
    /\ now > 0 /\ lastSeen[ev.conn] = now
    /\ sent = <<>>

\* C18 (no event of C touches the entry of D): a close event or an error
\* event of connection C, and a register request of C, never remove or
\* replace the registry entry of a different connection D; so a connection
\* whose socket is open and which has not itself been removed as disconnected
\* stays in the registry under its current id.
C18_OnlyOwnEntry ==
    [][ (ev'.type \in {"close", "error"} \/ IsFrameOf(ev', {"register"})) =>
          \A D \in Conns \ {ev'.conn} :
              D \in ClientSet(clients) =>
                  /\ D \in ClientSet(clients')
                  /\ KeysOf(clients', D) = KeysOf(clients, D) ]_vars

\* C19 (registry well-formedness): in every reachable state each registry
\* entry is stored under the key that is its record's current id, and each
\* connection is bound to at most one registry key.
C19_WellFormed ==
    /\ \A i \in 1..Len(clients) : clients[i].key = id[clients[i].client]
    /\ \A i, j \in 1..Len(clients) : clients[i].client = clients[j].client => i = j
    /\ \A i, j \in 1..Len(clients) : clients[i].key = clients[j].key => i = j

\* C19 witness: two connections hold the same record id, one of them is in
\* the registry under it and the other, removed after a failed send, is not
C19_Witness ==
    /\ \E C, D \in Conns : C # D /\ id[C] = id[D] /\ id[C] \in Names
                           /\ sock[C] = "OPEN" /\ sock[D] = "OPEN"
    /\ Len(clients) = 1 /\ clients[1].key \in Names

\* C20 (no premature eviction): a sweep removes and terminates a client only
\* if now - lastSeen is more than MAX_IDLE_TIME at the sweep; an entry whose
\* client was last seen MAX_IDLE_TIME ago or less stays in the registry under
\* its key, and the sweep changes neither that client's socket nor its
\* pending events nor its record.
C20_NoPrematureEviction ==
    [][ IsSweep(ev') =>
          /\ \A c \in ev'.evicted : now - lastSeen[c] > MAX_IDLE_TIME
          /\ \A c \in Conns : sock'[c] # sock[c] => c \in ev'.evicted
          /\ \A i \in 1..Len(clients) :
                 now - lastSeen[clients[i].client] <= MAX_IDLE_TIME =>
                     /\ MapGet(clients', clients[i].key) = clients[i].client
                     /\ sock'[clients[i].client] = sock[clients[i].client]
                     /\ pending'[clients[i].client] = pending[clients[i].client]
                     /\ id'[clients[i].client] = id[clients[i].client]
                     /\ lastSeen'[clients[i].client] = lastSeen[clients[i].client] ]_vars

\* C20 witness: a sweep ran when a client had been silent for exactly
\* MAX_IDLE_TIME, and the client is still in the registry with an open socket
C20_Witness ==
    /\ IsSweep(ev)
    /\ \E i \in 1..Len(clients) :
           /\ now - lastSeen[clients[i].client] = MAX_IDLE_TIME
           /\ sock[clients[i].client] = "OPEN"
           /\ \E j \in DOMAIN sent : sent[j].to = clients[i].client

====
